---- MODULE Spec2Model ----
(***************************************************************************)
(* State-machine model of the IMS / Forecast HTTP clients                  *)
(* (src/bb_clients/ims/__init__.py, src/bb_clients/fc/__init__.py).        *)
(*                                                                         *)
(* One client operation is invoked from the idle state and runs to its     *)
(* end.  The remote service is the environment: every response it can give *)
(* (status, body, fields present or absent) is a nondeterministic choice.  *)
(***************************************************************************)
EXTENDS Integers, Sequences, FiniteSets, TLC

(***************************************************************************)
(* Bounds of the model.                                                    *)
(***************************************************************************)
\* largest page size `limit` a caller passes
MaxLimit == 2
\* largest `total` the service reports
MaxTotal == 3
\* number of yielded chunks the observation history keeps (and one more
\* chunk request: the request after the last chunk kept)
MaxChunks == 2
\* number of batches the service has to archive (it answers true at most so often)
MaxBatches == 3
\* the clock stops advancing at this reading
MaxClock == 2

(***************************************************************************)
(* Program constants.                                                      *)
(***************************************************************************)
\* stop=stop_after_attempt(3)
StopAfterAttempt == 3
\* wait=wait_fixed(5)
WaitFixed == 5
\* window_start = datetime.utcnow() - timedelta(days=2)
DefaultWindowDays == 2

(***************************************************************************)
(* JSON objects: an optional field is the empty set when the key is absent *)
(* and {v} when it holds v.  Get is dict.get(key, default).                *)
(***************************************************************************)
Absent == {}

Get(field, default) == IF field = Absent THEN default ELSE CHOOSE v \in field : TRUE

Opt(S) == {Absent} \cup {{v} : v \in S}

\* The rows a chunk carries.  Rows are opaque to the client; the service
\* serves the window's rows by offset, so a row is named by its offset.
Page(skip, n) == [i \in 1..n |-> skip + i]

\* Exceptions httpx.post raises before any response is read.
TransportErrors == {"ConnectError", "ReadTimeout"}

\* Bodies the count endpoint can answer with.
CountResponses ==
    [status : {"ok", "non200"}, json : {TRUE, FALSE}, total : Opt(0..MaxTotal)]

\* Bodies the chunk endpoint can answer with (its status is never read):
\* text that is not JSON, or an object whose total, count and data (here the
\* number of rows) are each present or absent.
ChunkResponses ==
    {[json |-> FALSE, total |-> Absent, count |-> Absent, data |-> Absent]} \cup
    [json : {TRUE}, total : Opt(0..MaxTotal), count : Opt(0..MaxLimit),
     data : Opt(0..MaxLimit)]

VARIABLES
    op,         \* the operation running: "idle" before any call
    pc,         \* where the operation stands
    error,      \* the exception the operation ended with, "none" otherwise
    now,        \* the clock datetime.utcnow() reads, in days
    limit,      \* replication_data: page size argument
    window_start, \* replication_data: local `window_start`
    window_end, \* replication_data: local `window_end`
    force,      \* replication_data: argument `force`
    count,      \* replication_data: local `count`
    total,      \* replication_data: local `total`
    counted,    \* history: how the count query answered
    countTotal, \* history: the total get_replication_count returned, if any
    countCall,  \* history: the arguments the count query was called with
    inflight,   \* replication_data: skip of the chunk request in flight
    requests,   \* history: chunk requests sent, [skip, total in force]
    yielded,    \* history: chunks yielded to the caller
    reported,   \* history: the `count` each chunk yielded reported, 0 if none
    lastKind,   \* history: the latest chunk response: undecodable, empty, page
    lastTotal,  \* history: the `total` field of the latest chunk response,
                \* kept for the first chunk of a run and the one after it
    endpoint,   \* the retry-wrapped method being attempted, "none" otherwise
    asModel,    \* its as_model argument
    attempts,   \* retry: attempts made by the current retry-wrapped call
    outcomes,   \* retry: per attempt, "ok" or the exception it raised
    waited,     \* retry: seconds slept between the attempts of the call
    lastStatus, \* status of the response to the latest attempt
    result,     \* what the operation returned, "none" before it returns
    acount,     \* archive_all: local `count`
    rpcs,       \* archive_all history: archive RPCs issued
    sleeps,     \* archive_all history: sleep(sleep_sec) calls made
    trues,      \* archive_all history: answers of status 200 and body true
    faults,     \* archive_all history: archive attempts that raised
    lastAnswer  \* archive_all history: the answer that ended the loop

replArgs == <<limit, window_start, window_end, force>>

replHist ==
    <<counted, countTotal, countCall, requests, yielded, reported, lastKind,
      lastTotal>>

replVars == <<now, replArgs, count, total, inflight, replHist>>

retryVars == <<endpoint, asModel, attempts, outcomes, waited, lastStatus>>

archVars == <<acount, rpcs, sleeps, trues, faults, lastAnswer>>

vars == <<op, pc, error, result, replVars, retryVars, archVars>>

\* A history keeps its first n entries; the program runs on.
Record(h, x, n) == IF Len(h) < n THEN Append(h, x) ELSE h

Init ==
    /\ op = "idle"
    /\ pc = "idle"
    /\ error = "none"
    /\ now = 0
    /\ limit = 0
    /\ window_start = Absent
    /\ window_end = Absent
    /\ force = FALSE
    /\ countCall = Absent
    /\ lastTotal = Absent
    /\ count = 0
    /\ total = 0
    /\ counted = "none"
    /\ inflight = Absent
    /\ requests = <<>>
    /\ yielded = <<>>
    /\ reported = <<>>
    /\ lastKind = "none"
    /\ countTotal = Absent
    /\ endpoint = "none"
    /\ asModel = FALSE
    /\ attempts = 0
    /\ outcomes = <<>>
    /\ waited = 0
    /\ lastStatus = "none"
    /\ result = "none"
    /\ acount = 0
    /\ rpcs = 0
    /\ sleeps = 0
    /\ trues = 0
    /\ faults = 0
    /\ lastAnswer = "none"

(***************************************************************************)
(* replication_data (ims/__init__.py 307-368)                              *)
(***************************************************************************)

\* Variant of get_replication_count: a failed count query yields the default.
get_replication_count_default(r, lim) ==
    IF r.status # "ok" \/ ~r.json THEN [raised |-> "none", total |-> lim]
    ELSE [raised |-> "none", total |-> Get(r.total, lim)]

\* get_replication_count: the total, or the exception raised.
get_replication_count(r, lim) ==
    IF r.status # "ok" THEN [raised |-> "HTTPException422", total |-> 0]
    ELSE IF ~r.json THEN [raised |-> "HTTPException500", total |-> 0]
    ELSE [raised |-> "none", total |-> Get(r.total, lim)]

\* Variant of LoopGuard: while count <= total
LoopGuardInclusive(c, t) == c <= t

\* Variant of LoopGuard: while True
LoopGuardAlways(c, t) == TRUE

\* while count < total
LoopGuard(c, t) == c < t

\* Variant of AdoptTotal: a chunk's total is taken whenever the chunk has one.
AdoptTotalAlways(t, lim, chunk) == Get(chunk.total, t)

\* if total == limit: total = chunk.get("total", limit)
AdoptTotal(t, lim, chunk) == IF t = lim THEN Get(chunk.total, lim) ELSE t

\* chunk_data := chunk.get("data", []) -- truthy when non-empty
ChunkData(skip, chunk) == Page(skip, Get(chunk.data, 0))

\* Variant of Advance: count += limit
AdvanceByLimit(c, lim, chunk) == c + lim

\* count += chunk.get("count", 0)
Advance(c, lim, chunk) == c + Get(chunk.count, 0)

\* Variant of ChunkDecision: an empty chunk is yielded like any other.
ChunkDecisionNoBreak(chunk, data) == IF ~chunk.json THEN "break" ELSE "yield"

\* What the loop does with a decoded chunk: yield it, or break.
\* A body that is not JSON raises JSONDecodeError, which the loop catches.
ChunkDecision(chunk, data) ==
    IF ~chunk.json THEN "break" ELSE IF data # <<>> THEN "yield" ELSE "break"

\* Time passes while an RPC is under way: the clock reads later after it.
Tick(t) == IF t < MaxClock THEN t + 1 ELSE t

\* self.get_replication_count(force, limit, window_end, window_start): the
\* arguments of the count query (its HTTP parameters are these without limit)
CountArgs(f, lim, we, ws) ==
    [window_start |-> ws, window_end |-> we, limit |-> lim, force |-> f]

\* Variant of ChunkParams: the window's end is read from the clock per chunk.
ChunkParamsNow(c, f, lim, we, ws) ==
    [window_start |-> ws, window_end |-> {now}, skip |-> c, limit |-> lim,
     force |-> f]

\* get_replication_data_chunk(count, force, limit, window_end, window_start):
\* the HTTP parameters of a chunk request
ChunkParams(c, f, lim, we, ws) ==
    [window_start |-> ws, window_end |-> we, skip |-> c, limit |-> lim,
     force |-> f]

\* The call up to the count query, for the arguments ws, lim, f:
\* if not window_start: window_start = utcnow() - 2 days; window_end = utcnow()
Enter(ws, lim, f) ==
    /\ op = "idle"
    /\ op' = "replication_data"
    /\ pc' = "count"
    /\ limit' = lim
    /\ force' = f
    /\ window_start' = IF ws = Absent THEN {now - DefaultWindowDays} ELSE ws
    /\ window_end' = {now}
    /\ count' = 0
    /\ UNCHANGED <<error, result, now, total, inflight, replHist, retryVars,
                   archVars>>

\* replication_data(limit=lim): window_start and force at their defaults
CallReplicationData == \E lim \in 1..MaxLimit : Enter(Absent, lim, FALSE)

\* replication_data(window_start, limit, force=True), all three given
CallReplicationDataWith == \E lim \in 1..MaxLimit : Enter({now - 1}, lim, TRUE)

\* total = self.get_replication_count(...): httpx.post raises, once
CountTransportError ==
    /\ op = "replication_data" /\ pc = "count"
    /\ pc' = "raised"
    /\ \E e \in TransportErrors : error' = e
    /\ counted' = "transport"
    /\ countCall' = {CountArgs(force, limit, window_end, window_start)}
    /\ attempts' = attempts + 1
    /\ now' = Tick(now)
    /\ UNCHANGED <<op, result, replArgs, count, total, inflight, countTotal,
                   requests, yielded, reported, lastKind, lastTotal, endpoint,
                   asModel, outcomes, waited, lastStatus, archVars>>

\* total = self.get_replication_count(...): the service answers
CountQuery ==
    /\ op = "replication_data" /\ pc = "count"
    /\ \E r \in CountResponses :
        LET res == get_replication_count(r, limit) IN
        /\ counted' = IF r.status # "ok" THEN "non200"
                      ELSE IF ~r.json THEN "garbage"
                      ELSE IF r.total = Absent THEN "nototal" ELSE "total"
        /\ IF res.raised # "none"
           THEN /\ pc' = "raised"
                /\ error' = res.raised
                /\ UNCHANGED <<total, countTotal>>
           ELSE /\ pc' = "loop"
                /\ total' = res.total
                /\ countTotal' = {res.total}
                /\ UNCHANGED error
    /\ countCall' = {CountArgs(force, limit, window_end, window_start)}
    /\ now' = Tick(now)
    /\ UNCHANGED <<op, result, replArgs, count, inflight, requests, yielded,
                   reported, lastKind, lastTotal, retryVars, archVars>>

\* the while test fails: the generator is exhausted
LoopExit ==
    /\ op = "replication_data" /\ pc = "loop"
    /\ ~LoopGuard(count, total)
    /\ pc' = "done"
    /\ UNCHANGED <<op, error, result, replVars, retryVars, archVars>>

\* the while test holds: get_replication_data_chunk posts skip = count
SendChunkRequest ==
    /\ op = "replication_data" /\ pc = "loop"
    /\ LoopGuard(count, total)
    /\ pc' = "chunk"
    /\ inflight' = {count}
    /\ requests' =
           Record(requests,
                  ChunkParams(count, force, limit, window_end, window_start)
                      @@ [total |-> total],
                  MaxChunks + 1)
    /\ UNCHANGED <<op, error, result, now, replArgs, count, total, counted,
                   countTotal, countCall, yielded, reported, lastKind, lastTotal,
                   retryVars, archVars>>

\* httpx.post raises, once: nothing in replication_data catches it
ChunkTransportError ==
    /\ op = "replication_data" /\ pc = "chunk"
    /\ pc' = "raised"
    /\ \E e \in TransportErrors : error' = e
    /\ inflight' = Absent
    /\ attempts' = attempts + 1
    /\ now' = Tick(now)
    /\ UNCHANGED <<op, result, replArgs, count, total, replHist, endpoint,
                   asModel, outcomes, waited, lastStatus, archVars>>

\* the body of the loop, from r.json() to the yield or the break
ReceiveChunk ==
    /\ op = "replication_data" /\ pc = "chunk"
    /\ \E chunk \in ChunkResponses :
        LET skip == Get(inflight, 0)
            data == ChunkData(skip, chunk)
            d == ChunkDecision(chunk, data)
        IN
        /\ inflight' = Absent
        /\ lastKind' = IF ~chunk.json THEN "undecodable"
                       ELSE IF Get(chunk.data, 0) = 0 THEN "empty" ELSE "page"
        /\ lastTotal' = IF Len(requests) <= 2 THEN chunk.total ELSE Absent
        /\ total' = IF chunk.json THEN AdoptTotal(total, limit, chunk) ELSE total
        /\ IF d = "yield"
           THEN /\ count' = Advance(count, limit, chunk)
                /\ yielded' = Record(yielded, data, MaxChunks)
                /\ reported' = Record(reported, Get(chunk.count, 0), MaxChunks)
                /\ pc' = "loop"
           ELSE /\ pc' = "done"
                /\ UNCHANGED <<count, yielded, reported>>
    /\ now' = Tick(now)
    /\ UNCHANGED <<op, error, result, replArgs, counted, countTotal, countCall,
                   requests, retryVars, archVars>>

(***************************************************************************)
(* @retry(reraise=True, stop=stop_after_attempt(3), wait=wait_fixed(5))    *)
(***************************************************************************)

\* Retry-wrapped methods a caller invokes directly.
Endpoints ==
    {"readings", "async_readings", "tanks", "async_tanks", "near", "far",
     "latest", "store_connection_information"}

\* Bodies of a response: an empty JSON list, a JSON list of rows, a JSON
\* object (an error detail), or text that is not JSON.
ReadBodies == {"list0", "rows", "object", "garbage"}

\* Bodies of an archive response: JSON true, JSON false, or not JSON.
ArchiveBodies == {"true", "false", "garbage"}

ReadResponses == [status : {"200", "non200"}, body : ReadBodies]

ArchiveResponses == [status : {"200", "non200"}, body : ArchiveBodies]

Returns(v) == [raised |-> "ok", value |-> v]

Raises(e) == [raised |-> e, value |-> "none"]

\* r.json(): the decoded body, or JSONDecodeError
Json(r) == IF r.body = "garbage" THEN Raises("JSONDecodeError")
           ELSE Returns(IF r.body = "list0" THEN "empty" ELSE r.body)

\* [Model(**row) for row in data], row["read_time"] = ...: a list passes, the
\* keys of an object are strings and raise TypeError
Rows(j) == IF j.raised = "ok" /\ j.value = "object" THEN Raises("TypeError") ELSE j

\* data = r.json() if r.status_code == 200 else []
JsonIf200(r) == IF r.status = "200" THEN Json(r) ELSE Returns("empty")

\* readings, ims 83-113
readings(r) == Rows(JsonIf200(r))

\* async_readings, ims 217-237
async_readings(r) == Rows(JsonIf200(r))

\* tanks, ims 200-213: the status is not read
tanks(r, m) == IF m THEN Rows(Json(r)) ELSE Json(r)

\* async_tanks, ims 241-254
async_tanks(r) == IF r.status # "200" THEN Returns("empty") ELSE Rows(Json(r))

\* near and far, fc 59-82
near(r, m) == IF m THEN Rows(JsonIf200(r)) ELSE JsonIf200(r)

\* latest, fc 155-166
latest(r) == JsonIf200(r)

\* store_connection_information, ims 167-180
store_connection_information(r) ==
    IF r.status = "200" THEN Json(r) ELSE Raises("ImsError")

\* Variant of archive: a status other than 200 is raised like in
\* store_connection_information.
archive_raising(r) == IF r.status # "200" THEN Raises("ImsError") ELSE Json(r)

\* archive, ims 258-275
archive(r) == IF r.status # "200" THEN Returns("false") ELSE Json(r)

\* One attempt of the wrapped method on the response r.
Handle(ep, m, r) ==
    CASE ep = "readings" -> readings(r)
      [] ep = "async_readings" -> async_readings(r)
      [] ep = "tanks" -> tanks(r, m)
      [] ep = "async_tanks" -> async_tanks(r)
      [] ep \in {"near", "far"} -> near(r, m)
      [] ep = "latest" -> latest(r)
      [] ep = "store_connection_information" -> store_connection_information(r)
      [] ep = "archive" -> archive(r)

\* Variant of ShouldStop: one attempt more
ShouldStopLate(n) == n > StopAfterAttempt

\* stop_after_attempt(3): no further attempt after attempt number n
ShouldStop(n) == n >= StopAfterAttempt

\* reraise=True: the exception of the last attempt
Reraised(outs) == outs[Len(outs)]

\* What the retry wrapper does after attempt number n ended with outcome o.
RetryDecision(n, o) ==
    IF o = "ok" THEN "return" ELSE IF ShouldStop(n) THEN "reraise" ELSE "retry"

\* a caller invokes a retry-wrapped method
CallEndpoint ==
    /\ op = "idle"
    /\ \E ep \in Endpoints, m \in BOOLEAN :
        /\ m => ep \in {"tanks", "near", "far"}
        /\ endpoint' = ep
        /\ asModel' = m
    /\ op' = "call"
    /\ pc' = "attempt"
    /\ UNCHANGED <<error, result, replVars, attempts, outcomes, waited,
                   lastStatus, archVars>>

\* One attempt of the wrapped method, and what the wrapper does with it.
\* out is the attempt's outcome, st the status the service answered with.
Attempt(out, st) ==
    LET n == attempts + 1
        outs == Append(outcomes, out.raised)
        d == RetryDecision(n, out.raised)
    IN
    /\ attempts' = n
    /\ outcomes' = outs
    /\ lastStatus' = st
    /\ waited' = IF d = "retry" THEN waited + WaitFixed ELSE waited
    /\ pc' = CASE d = "return" -> "returned"
               [] d = "reraise" -> "raised"
               [] d = "retry" -> "attempt"
    /\ result' = IF d = "return" THEN out.value ELSE result
    /\ error' = IF d = "reraise" THEN Reraised(outs) ELSE error

\* httpx.post raises in an attempt
AttemptTransportError ==
    /\ op = "call" /\ pc = "attempt"
    /\ \E e \in TransportErrors : Attempt(Raises(e), "transport")
    /\ UNCHANGED <<op, endpoint, asModel, replVars, archVars>>

\* the service answers an attempt
AttemptResponse ==
    /\ op = "call" /\ pc = "attempt"
    /\ \E r \in ReadResponses : Attempt(Handle(endpoint, asModel, r), r.status)
    /\ UNCHANGED <<op, endpoint, asModel, replVars, archVars>>

(***************************************************************************)
(* archive_all (ims/__init__.py 277-305)                                   *)
(***************************************************************************)

\* a caller invokes archive_all; the while test calls archive
CallArchiveAll ==
    /\ op = "idle"
    /\ op' = "archive_all"
    /\ pc' = "attempt"
    /\ endpoint' = "archive"
    /\ UNCHANGED <<error, result, replVars, asModel, attempts, outcomes, waited,
                   lastStatus, archVars>>

\* while await self.archive(limit, days_back): truthiness of the answer
Truthy(v) == v = "true"

\* Variant of LoopBody: the sleep is left out
LoopBodyNoSleep(a, s) == [acount |-> a + 1, sleeps |-> s]

\* the loop body: count += 1 ... await sleep(sleep_sec)
LoopBody(a, s) == [acount |-> a + 1, sleeps |-> s + 1]

\* One attempt of archive inside the while test, the retry wrapper's
\* decision, and on a return the loop body or the loop's end.
ArchiveAttempt(out, st) ==
    LET n == attempts + 1
        outs == Append(outcomes, out.raised)
        d == RetryDecision(n, out.raised)
        more == d = "return" /\ Truthy(out.value)
    IN
    /\ rpcs' = rpcs + 1
    /\ faults' = IF out.raised = "ok" THEN faults ELSE faults + 1
    /\ lastStatus' = st
    /\ attempts' = IF more THEN 0 ELSE n
    /\ outcomes' = IF more THEN <<>> ELSE outs
    /\ waited' = CASE d = "retry" -> waited + WaitFixed
                   [] more -> 0
                   [] OTHER -> waited
    /\ acount' = IF more THEN LoopBody(acount, sleeps).acount ELSE acount
    /\ sleeps' = IF more THEN LoopBody(acount, sleeps).sleeps ELSE sleeps
    /\ lastAnswer' = IF d = "return" /\ ~more
                     THEN (IF st = "200" THEN "false" ELSE "non200")
                     ELSE lastAnswer
    /\ pc' = CASE d = "reraise" -> "raised"
               [] d = "retry" \/ more -> "attempt"
               [] OTHER -> "returned"
    /\ result' = IF d = "return" /\ ~more THEN "True" ELSE result
    /\ error' = IF d = "reraise" THEN Reraised(outs) ELSE error

\* client.post raises in an attempt of archive
ArchiveTransportError ==
    /\ op = "archive_all" /\ pc = "attempt"
    /\ \E e \in TransportErrors : ArchiveAttempt(Raises(e), "transport")
    /\ UNCHANGED <<op, endpoint, asModel, replVars, trues>>

\* the service answers an attempt of archive
ArchiveResponse ==
    /\ op = "archive_all" /\ pc = "attempt"
    /\ \E r \in ArchiveResponses :
        /\ (r.status = "200" /\ r.body = "true") => trues < MaxBatches
        /\ trues' = IF r.status = "200" /\ r.body = "true" THEN trues + 1 ELSE trues
        /\ ArchiveAttempt(Handle(endpoint, asModel, r), r.status)
    /\ UNCHANGED <<op, endpoint, asModel, replVars>>

Next ==
    \/ CallReplicationData
    \/ CountTransportError
    \/ CountQuery
    \/ LoopExit
    \/ SendChunkRequest
    \/ ChunkTransportError
    \/ ReceiveChunk
    \/ CallEndpoint
    \/ AttemptTransportError
    \/ AttemptResponse
    \/ CallArchiveAll
    \/ ArchiveTransportError
    \/ ArchiveResponse

Spec == Init /\ [][Next]_vars


\* The steps of replication_data once it is called.
ReplNext ==
    \/ CountTransportError
    \/ CountQuery
    \/ LoopExit
    \/ SendChunkRequest
    \/ ChunkTransportError
    \/ ReceiveChunk

\* A run of replication_data, called with its defaults or with a window start
\* and force given.
WindowNext ==
    \/ CallReplicationData
    \/ CallReplicationDataWith
    \/ CountTransportError
    \/ CountQuery
    \/ LoopExit
    \/ SendChunkRequest
    \/ ChunkTransportError
    \/ ReceiveChunk

WindowSpec == Init /\ [][WindowNext]_vars

\* The caller consumes the generator to its end and the service answers
\* every request: a step of the run that can be taken is taken.
FairSpec == Init /\ [][Next]_vars /\ WF_vars(ReplNext)

(***************************************************************************)
(* Properties                                                              *)
(***************************************************************************)

RECURSIVE SumFirst(_, _)
\* the sum of the first n entries of a sequence of numbers
SumFirst(s, n) == IF n = 0 THEN 0 ELSE SumFirst(s, n - 1) + s[n]

RECURSIVE RowsFirst(_, _)
\* the number of rows in the first n chunks of a sequence of chunks
RowsFirst(s, n) == IF n = 0 THEN 0 ELSE RowsFirst(s, n - 1) + Len(s[n])

\* C1 as stated: after every chunk with non-empty data count advances by the
\* requested limit, so the chunk requests of a run carry skip 0, limit,
\* 2*limit, ...
C1_SkipAdvancesByLimit ==
    \A i \in 1..Len(requests) : requests[i].skip = (i - 1) * limit

\* C1 amended: count advances by the count field the chunk reports (0 when it
\* has none), so every chunk request carries as skip the sum of the count
\* fields of the chunks yielded before it; with limit 2, total 3 and the
\* answers {count:2, data:[A,B]}, {data:[C]}, {data:[]} the requests go out at
\* skip 0, 2 and 2 and exactly [A,B] then [C] are yielded.
C1_SkipAdvancesByReportedCount ==
    /\ \A i \in 1..Len(requests) : requests[i].skip = SumFirst(reported, i - 1)
    /\ pc = "loop" => count = SumFirst(reported, Len(reported))
                      \/ Len(reported) = MaxChunks
    /\ (/\ limit = 2 /\ countTotal = {3}
        /\ reported = <<2, 0>> /\ lastKind = "empty"
        /\ Len(yielded[1]) = 2 /\ Len(yielded[2]) = 1)
       => /\ [i \in 1..Len(requests) |-> requests[i].skip] = <<0, 2, 2>>
          /\ yielded = << <<1, 2>>, <<3>> >>
          /\ pc = "done"

\* C1 witness: the run of the example has ended.
C1_Witness ==
    /\ limit = 2 /\ countTotal = {3} /\ pc = "done" /\ lastKind = "empty"
    /\ reported = <<2, 0>>
    /\ yielded = << <<1, 2>>, <<3>> >>
    /\ Len(requests) = 3

\* C2: a fully consumed run of replication_data ends, whatever the service
\* answers.
C2_RunEnds == (pc = "count") ~> (pc \in {"done", "raised"})

\* C3: the skip of every chunk request equals the number of rows yielded
\* before it in the run (so skip strictly increases and no row offset is
\* requested twice).
C3_SkipIsRowsYielded ==
    \A i \in 1..Len(requests) : requests[i].skip = RowsFirst(yielded, i - 1)

\* C4: a count query answered with a non-200 status or with a body that is
\* not JSON makes replication_data raise: no chunk request is sent, nothing
\* is yielded, no total is put in place of the missing one.
C4_CountFailureRaises ==
    counted \in {"non200", "garbage"} =>
        /\ pc = "raised"
        /\ error = (IF counted = "non200" THEN "HTTPException422"
                    ELSE "HTTPException500")
        /\ requests = <<>> /\ yielded = <<>> /\ inflight = Absent
        /\ countTotal = Absent

\* C4 witness: the count query answered with an undecodable body.
C4_Witness == counted = "garbage" /\ pc = "raised"

\* C5: when the count query returns total = 0 no chunk request is sent and
\* nothing is yielded.
C5_ZeroTotalNoRequest ==
    countTotal = {0} =>
        /\ requests = <<>> /\ yielded = <<>> /\ inflight = Absent
        /\ pc \in {"loop", "done"}

\* C5 witness: a run whose count query returned 0 has ended.
C5_Witness == countTotal = {0} /\ counted = "total" /\ pc = "done"

\* C6: a chunk response that is not JSON, or whose data is empty, ends the
\* run without raising; the chunks yielded before it stay as they are and no
\* chunk request follows it.
C6_BadChunkEndsRun ==
    [][lastKind' \in {"undecodable", "empty"} =>
          /\ pc' = "done" /\ error' = "none"
          /\ yielded' = yielded
          /\ lastKind \in {"undecodable", "empty"} => requests' = requests]_vars

\* C6 witness: an undecodable chunk ended a run that had yielded a chunk.
C6_Witness == lastKind = "undecodable" /\ Len(yielded) >= 1 /\ pc = "done"

\* the chunk requests sent with skip >= the total in force when sent
Probes == {i \in 1..Len(requests) : requests[i].skip >= requests[i].total}

\* C7: at most one chunk request of a run is sent with skip >= the total in
\* force; after a non-empty final page shorter than limit the run ends, with
\* at most the one request that finds no data after it.
C7_AtMostOneProbe ==
    /\ Cardinality(Probes) <= 1
    /\ lastKind = "empty" => pc = "done"
    /\ (pc = "done" /\ Len(requests) <= MaxChunks)
           => Len(requests) <= Len(yielded) + 1

\* C7 witness: a run ended after a final page shorter than limit and the one
\* request after it.
C7_Witness ==
    /\ pc = "done" /\ lastKind = "empty"
    /\ Len(yielded) = 2 /\ Len(requests) = 3
    /\ Len(yielded[1]) = limit /\ Len(yielded[2]) < limit

\* C8: when archive answers true k times and then false, archive_all issues
\* k+1 archive RPCs, sleeps k times (never after the false answer) and
\* returns true.
C8_ArchiveAllCounts ==
    /\ (op = "archive_all" /\ faults = 0) =>
           /\ sleeps = trues
           /\ rpcs = trues + (IF pc = "returned" THEN 1 ELSE 0)
    /\ (op = "archive_all" /\ pc = "returned") => result = "True"
    /\ (op = "archive_all" /\ pc = "attempt") => result = "none"

\* C8 witness: the answers true, true, false.
C8_Witness ==
    /\ op = "archive_all" /\ pc = "returned" /\ faults = 0
    /\ lastAnswer = "false" /\ trues = 2 /\ rpcs = 3 /\ sleeps = 2

\* the best-effort read endpoints: tanks, readings and forecasts, sync and async
BestEffortEndpoints ==
    {"readings", "async_readings", "tanks", "async_tanks", "near", "far"}

\* C9: a best-effort read endpoint answered with a non-200 status returns an
\* empty collection and does not raise.
C9_Non200GivesEmpty ==
    (op = "call" /\ endpoint \in BestEffortEndpoints /\ lastStatus = "non200")
        => pc = "returned" /\ result = "empty"

\* C10: a retry-wrapped call is attempted at most 3 times, 5 seconds apart;
\* it returns at the first attempt that succeeds, and when all 3 attempts
\* raise it raises the exception of the last one.
C10_RetryThreeTimes ==
    op = "call" =>
        /\ attempts <= StopAfterAttempt
        /\ Len(outcomes) = attempts
        /\ \A i \in 1..(attempts - 1) : outcomes[i] # "ok"
        /\ pc = "attempt" =>
               /\ attempts < StopAfterAttempt
               /\ \A i \in 1..attempts : outcomes[i] # "ok"
               /\ waited = WaitFixed * attempts
               /\ result = "none" /\ error = "none"
        /\ pc = "returned" =>
               /\ outcomes[attempts] = "ok"
               /\ waited = WaitFixed * (attempts - 1)
               /\ result # "none" /\ error = "none"
        /\ pc = "raised" =>
               /\ attempts = StopAfterAttempt
               /\ outcomes[attempts] # "ok"
               /\ error = outcomes[attempts]
               /\ waited = WaitFixed * (attempts - 1)
               /\ result = "none"

\* C10 witness: three attempts raised, the last one differently from the
\* first, and the call raised.
C10_Witness ==
    /\ op = "call" /\ pc = "raised" /\ attempts = 3
    /\ outcomes[1] = "ConnectError" /\ outcomes[3] = "JSONDecodeError"
    /\ error = "JSONDecodeError"

\* a chunk response has just been handled
ChunkHandled ==
    op = "replication_data" /\ pc = "chunk" /\ pc' \in {"loop", "done"}

\* the chunk handled is the first of the run or the one after it
FirstOrSecond == Len(requests) <= 2

\* C11: the total in force is replaced by a chunk's own total exactly when
\* that chunk is the very first chunk of the run and carries a total field;
\* on every later chunk, and on a first chunk without total, it is unchanged.
C11_FirstChunkSetsTotal ==
    [][(ChunkHandled /\ FirstOrSecond) =>
          total' = IF Len(requests) = 1 /\ lastTotal' # Absent
                   THEN Get(lastTotal', total) ELSE total]_vars

\* C11 amended: the total in force is replaced by a chunk's own total exactly
\* when it equals limit as the chunk is decoded and the chunk carries a total
\* field, on the first chunk or a later one; whenever it differs from limit,
\* or the chunk has no total field or is not JSON, it is unchanged.
C11_TotalAdoptedWhileEqualToLimit ==
    [][ChunkHandled =>
          /\ total # limit => total' = total
          /\ FirstOrSecond =>
                 total' = IF total = limit /\ lastTotal' # Absent
                          THEN Get(lastTotal', total) ELSE total]_vars

\* C11 witness: the second chunk of a run replaced the total in force, which
\* the first chunk had left equal to limit.
C11_Witness ==
    /\ op = "replication_data" /\ pc \in {"loop", "done"}
    /\ Len(requests) = 2 /\ requests[2].total = limit
    /\ lastTotal # Absent /\ total = Get(lastTotal, limit) /\ total # limit

\* C12: a transport failure of one count or chunk RPC is retried for that RPC
\* alone, a bounded number of times a fixed delay apart, before it can affect
\* the run: a run raises a transport error only after the RPC that failed was
\* attempted more than once.
C12_RpcRetriedBeforeRunFails ==
    (op = "replication_data" /\ pc = "raised" /\ error \in TransportErrors)
        => attempts > 1 /\ waited >= WaitFixed

\* C14: an archive RPC answered with a non-200 status makes archive return
\* false without retrying and without raising, so archive_all stops at that
\* iteration, with no sleep and no further RPC, and returns true exactly as
\* when nothing is left to archive; archive_all raises only with the
\* exception that survived the 3 attempts of one archive call.
C14_Non200EndsArchiveAll ==
    op = "archive_all" =>
        /\ lastStatus = "non200" =>
               /\ pc = "returned" /\ result = "True" /\ error = "none"
               /\ lastAnswer = "non200"
               /\ outcomes[attempts] = "ok"
               /\ sleeps = trues /\ acount = trues
               /\ rpcs = trues + faults + 1
        /\ pc = "returned" =>
               /\ lastAnswer \in {"false", "non200"}
               /\ result = "True" /\ error = "none"
        /\ pc = "raised" =>
               /\ attempts = StopAfterAttempt
               /\ \A i \in 1..attempts : outcomes[i] # "ok"
               /\ error = outcomes[attempts]
               /\ lastStatus # "non200"
               /\ result = "none"

\* C14 witness: archive_all returned after the answers true and then 503.
C14_Witness ==
    /\ op = "archive_all" /\ pc = "returned" /\ lastStatus = "non200"
    /\ lastAnswer = "non200" /\ result = "True"
    /\ trues = 1 /\ sleeps = 1 /\ rpcs = 2

\* the window, limit and force of a request
Fixed(p) ==
    [window_start |-> p.window_start, window_end |-> p.window_end,
     limit |-> p.limit, force |-> p.force]

====
